---- MODULE Spec2Model ----
(***************************************************************************)
(* Deep-Research-Agent: the streaming status relay of api.py (the global   *)
(* status_queue, status_event_generator, run_crew_with_status and the task *)
(* callbacks scheduled from executor worker threads) and the phase         *)
(* controller of main.py (run(): research, conditional refinement loop,    *)
(* report), the non-streaming endpoint run_research of api.py, and the     *)
(* common tool wrapper BaseResearchTool._run of tools/base.py, and the     *)
(* execute methods of EnhancedFirecrawlTool, ClaimExtractorTool and        *)
(* FactCheckerTool.                                                        *)
(*                                                                         *)
(* A process is started through one of two entry points (main.py:19 run,   *)
(* main.py:178 run_server); `mode` records which one.  Mode "tool" is one  *)
(* tool invocation taken on its own, as an agent makes it inside kickoff;  *)
(* `tool` says which tool.  Mode "crew" is the task counter of              *)
(* task_progress_callback over one kickoff of the crew that                *)
(* LatestAiDevelopment().crew() builds, the relay left out.                *)
(*                                                                         *)
(* Scores are in tenths: 7 stands for 0.7.                                 *)
(***************************************************************************)
EXTENDS Integers, Sequences, FiniteSets, TLC

\* ------------------------------------------------------------------ bounds
\* task callbacks one crew.kickoff() fires before it returns
NumTasks == 2
\* keepalive heartbeats one stream may emit
MaxBeats == 1
\* largest max_iterations input
MaxIter == 2
\* events published over the life of a server that has two clients
MaxPublished == 6
\* the tasks of each crew when two clients stream at once
TwoClientTasks == 1
\* pieces of the text given to the claim extractor
MaxSentences == 3
\* largest max_claims argument
MaxClaims == 2
\* length of the evidence list given to _determine_confidence
MaxEvidence == 4
\* papers with an abstract in one Semantic Scholar answer
MaxSources == 3

\* total_tasks of run_crew_with_status
total_tasks == 12
\* the @task methods of LatestAiDevelopment, all of them in crew().tasks
CrewTasks == 18

\* the two streaming requests of the request-isolation claims
Req == {"r1", "r2"}

VARIABLES
  mode,           \* "cli" (main.run), "server" (api.app), "tool" or "crew"
  clients,        \* the requests the server's clients will make
  \* ---- api.py
  rpc,            \* position of each request's run_crew_with_status task
  status_queue,   \* the module-level asyncio.Queue
  ready,          \* the event loop's FIFO of ready callbacks
  worker,         \* executor thread running crew.kickoff of each request:
                  \* "none", "running", then how kickoff ended ("ok", "err")
  tasks_done,     \* tasks the worker thread has finished
  task_count,     \* the nonlocal counter of task_progress_callback
  gpc,            \* position of each request's status_event_generator
  out,            \* what each generator has yielded to its client
  beats,          \* timeouts each generator has seen
  failed,         \* the generator hit its `except Exception` branch
  published,      \* history: every event ever put on status_queue
  \* ---- main.py run()
  ppc,            \* position in run()
  enable_iterative_refinement,
  max_iterations,
  quality_threshold,
  quality_report,     \* research_result.pydantic
  quality_score,
  current_iteration,
  calls,          \* history: executor invocations, in order
  returned,       \* history: results of the refinement invocations
  raised_at,      \* history: which invocation raised (0: none)
  inputs_report,  \* the 'quality_report' entry of run()'s inputs dict
  passed,         \* history: the inputs each invocation was given
  \* ---- api.py run_research
  npc,            \* position of the POST /api/research handler
  outcome,        \* history: how the handler's try block ended
  response,       \* what the HTTP client got
  \* ---- tools/base.py
  tpc,            \* position of the tool invocation
  executed,       \* history: what self.execute(**kwargs) did
  tool_output,    \* what _run gave back to its caller
  tool,           \* the tool that is invoked: "base", "firecrawl", "claims",
                  \* "facts" ("none" outside mode "tool")
  \* ---- tools/ingestion/firecrawl_scraper.py
  fpc,            \* position in EnhancedFirecrawlTool.execute
  use_firecrawl,  \* self._use_firecrawl
  fallback_tool,  \* self._fallback_tool is not None
  scrapes,        \* history: the scrapers execute has called, in order
  scrape_results, \* history: how each of these calls ended
  scraped,        \* what execute returned
  \* ---- tools/analysis/claim_extractor.py
  cpc,            \* position of ClaimExtractorTool.execute
  text,           \* its text argument, as the pieces re.split cuts it into
  max_claims,     \* its max_claims argument
  extracted,      \* what execute returned
  \* ---- tools/analysis/fact_checker.py
  kpc,            \* position of the FactCheckerTool call
  evidence_list,  \* the evidence _determine_confidence is given
  searched,       \* history: how the Semantic Scholar request ended
  checked,        \* what the call returned
  \* ---- api.py task_progress_callback over a whole crew
  crew_count,     \* task_count
  progress        \* the "progress" field of the last event published

svars == <<rpc, status_queue, ready, worker, tasks_done, task_count, gpc,
           out, beats, failed, published>>
pvars == <<ppc, enable_iterative_refinement, max_iterations,
           quality_threshold, quality_report, quality_score,
           current_iteration, calls, returned, raised_at, inputs_report,
           passed>>
nvars == <<npc, outcome, response>>
uvars == <<tpc, executed, tool_output>>
fvars == <<fpc, use_firecrawl, fallback_tool, scrapes, scrape_results,
           scraped>>
cvars == <<cpc, text, max_claims, extracted>>
kvars == <<kpc, evidence_list, searched, checked>>
tvars == <<tool, uvars, fvars, cvars, kvars>>
hvars == <<crew_count, progress>>
ovars == <<nvars, tvars, hvars>>
env == <<mode, clients>>
vars == <<env, svars, pvars, ovars>>

\* run_research calls crew.kickoff in the coroutine itself (api.py:264): the
\* event loop's thread is inside kickoff until it returns or raises
LoopBlocked == npc = "kickoff"

\* ------------------------------------------------------------ events
\* A status dict.  `run` (the request whose run produced it) is not in the
\* dict: it is a history field the properties read.  `n` tells apart the two
\* system messages, and is the count of a task_completed/progress pair.
Event(t, r, n) == [type |-> t, run |-> r, n |-> n]

\* the StatusEvent enum of the data model
StatusEventTypes ==
  {"started", "system", "agent_started", "thinking", "action", "tool_start",
   "tool_end", "task_started", "progress", "task_completed", "completed",
   "error", "done"}

\* the types the methods of StreamingCallbackHandler put on the queue
HandlerEventTypes ==
  {"agent_started", "thinking", "action", "step_complete", "task_started",
   "task_completed", "tool_start", "tool_end", "error"}

\* status_queue.put of a list of events, in order.  The queue is unbounded.
\* One client's run publishes a bounded number of events; with two clients
\* the history is cut off at MaxPublished events.
Put(evs) ==
  /\ Req \subseteq clients => Len(published) + Len(evs) <= MaxPublished
  /\ status_queue' = status_queue \o evs
  /\ published' = published \o evs

\* ------------------------------------------- status_event_generator
\* f"data: {json.dumps(status)}\n\n"
SSEData(status) == [kind |-> "data", ev |-> status]
\* f": keepalive\n\n"
SSEKeepalive == [kind |-> "keepalive", ev |-> Event("keepalive", "none", 0)]
\* json.dumps({'type': 'error', 'message': str(e)})
GenErrorEvent == Event("error", "none", 0)

\* status.get("type") == "done"
IsDone(status) == status.type = "done"

\* a generator that does not break on "done"
AfterYieldNoBreak(status) == "waiting"

AfterYield(status) == IF IsDone(status) THEN "stopped" ELSE "waiting"

\* a keepalive that ends the stream
AfterTimeoutBreak == "stopped"

\* the generator after a timeout
AfterTimeout == "waiting"

\* an `except Exception` branch without its break
AfterExceptionNoBreak == "waiting"

\* the generator after the `except Exception` branch
AfterException == "stopped"

\* one pass of the loop body with an event available
GenNext(g) ==
  /\ mode = "server"
  /\ ~LoopBlocked
  /\ gpc[g] = "waiting"
  /\ status_queue # <<>>
  /\ LET status == Head(status_queue) IN
       /\ status_queue' = Tail(status_queue)
       /\ out' = [out EXCEPT ![g] = Append(@, SSEData(status))]
       /\ gpc' = [gpc EXCEPT ![g] = AfterYield(status)]
  /\ UNCHANGED <<env, ovars, rpc, ready, worker, tasks_done, task_count, beats,
                 failed, published, pvars>>

\* asyncio.TimeoutError: the 30 s window has passed with the queue empty
GenTimeout(g) ==
  /\ mode = "server"
  /\ ~LoopBlocked
  /\ gpc[g] = "waiting"
  /\ status_queue = <<>>
  /\ beats[g] < MaxBeats
  /\ beats' = [beats EXCEPT ![g] = @ + 1]
  /\ out' = [out EXCEPT ![g] = Append(@, SSEKeepalive)]
  /\ gpc' = [gpc EXCEPT ![g] = AfterTimeout]
  /\ UNCHANGED <<env, ovars, rpc, status_queue, ready, worker, tasks_done,
                 task_count, failed, published, pvars>>

\* an exception other than the timeout inside the try block: raised by the
\* wait (nothing taken) or by json.dumps (the event was taken and is lost)
GenException(g) ==
  /\ mode = "server"
  /\ ~LoopBlocked
  /\ gpc[g] = "waiting"
  /\ \E taken \in BOOLEAN :
       /\ taken => status_queue # <<>>
       /\ status_queue' = IF taken THEN Tail(status_queue) ELSE status_queue
  /\ failed' = [failed EXCEPT ![g] = TRUE]
  /\ out' = [out EXCEPT ![g] = Append(@, SSEData(GenErrorEvent))]
  /\ gpc' = [gpc EXCEPT ![g] = AfterException]
  /\ UNCHANGED <<env, ovars, rpc, ready, worker, tasks_done, task_count, beats,
                 published, pvars>>

\* the client disconnects: the transport closes the generator
GenClose(g) ==
  /\ mode = "server"
  /\ ~LoopBlocked
  /\ gpc[g] = "waiting"
  /\ gpc' = [gpc EXCEPT ![g] = "closed"]
  /\ UNCHANGED <<env, ovars, rpc, status_queue, ready, worker, tasks_done,
                 task_count, out, beats, failed, published, pvars>>

\* ------------------------------------------------- stream_research
\* asyncio.create_task(run_crew_with_status()); StreamingResponse(generator)
StreamResearch(r) ==
  /\ mode = "server"
  /\ ~LoopBlocked
  /\ r \in clients
  /\ rpc[r] = "idle"
  /\ rpc' = [rpc EXCEPT ![r] = "created"]
  /\ ready' = Append(ready, <<"step", r>>)
  /\ gpc' = [gpc EXCEPT ![r] = "waiting"]
  /\ UNCHANGED <<env, ovars, status_queue, worker, tasks_done, task_count, out,
                 beats, failed, published, pvars>>

\* ---------------------------------------------- run_crew_with_status
\* an except branch that publishes "done" before "error"
FailureEventsDoneFirst(r) == <<Event("done", r, 0), Event("error", r, 0)>>

\* what the except branch publishes
FailureEvents(r) == <<Event("error", r, 0), Event("done", r, 0)>>

\* a run that announces its success with a type of its own
SuccessEventsFinished(r) == <<Event("finished", r, 0), Event("done", r, 0)>>

\* a successful run that never publishes "done"
SuccessEventsNoDone(r) == <<Event("completed", r, 0)>>

\* a successful run that publishes "error" as well
SuccessEventsWithError(r) ==
  <<Event("error", r, 0), Event("completed", r, 0), Event("done", r, 0)>>

\* what is published after kickoff has returned
SuccessEvents(r) == <<Event("completed", r, 0), Event("done", r, 0)>>

\* first step of the task: "started", then sleep(0.5)
RunStart(r) ==
  /\ mode = "server"
  /\ ~LoopBlocked
  /\ ready # <<>> /\ Head(ready) = <<"step", r>>
  /\ ready' = Tail(ready)
  /\ Put(<<Event("started", r, 0)>>)
  /\ rpc' = [rpc EXCEPT ![r] = "sleep1"]
  /\ UNCHANGED <<env, ovars, worker, tasks_done, task_count, gpc, out, beats,
                 failed, pvars>>

\* after the first sleep: "system", LatestAiDevelopment(), "system", sleep
RunLoadAgents(r) ==
  /\ mode = "server"
  /\ ~LoopBlocked
  /\ rpc[r] = "sleep1"
  /\ \E raises \in BOOLEAN :
       IF raises
       THEN /\ Put(<<Event("system", r, 1)>> \o FailureEvents(r))
            /\ rpc' = [rpc EXCEPT ![r] = "finished"]
       ELSE /\ Put(<<Event("system", r, 1), Event("system", r, 2)>>)
            /\ rpc' = [rpc EXCEPT ![r] = "sleep2"]
  /\ UNCHANGED <<env, ovars, ready, worker, tasks_done, task_count, gpc, out,
                 beats, failed, pvars>>

\* after the second sleep: crew_instance.crew(), callbacks attached,
\* "execution_started", loop.run_in_executor(kickoff)
RunKickoff(r) ==
  /\ mode = "server"
  /\ ~LoopBlocked
  /\ rpc[r] = "sleep2"
  /\ \E raises \in BOOLEAN :
       IF raises
       THEN /\ Put(FailureEvents(r))
            /\ rpc' = [rpc EXCEPT ![r] = "finished"]
            /\ UNCHANGED worker
       ELSE /\ Put(<<Event("execution_started", r, 0)>>)
            /\ rpc' = [rpc EXCEPT ![r] = "kickoff"]
            /\ worker' = [worker EXCEPT ![r] = "running"]
  /\ UNCHANGED <<env, ovars, ready, tasks_done, task_count, gpc, out, beats,
                 failed, pvars>>

\* ---- the executor thread
\* crew.kickoff is the external engine.  What the model takes from it: a
\* task's callback is called by the engine while kickoff is running, before
\* kickoff returns or raises (an async task's thread is joined by kickoff).
\* asyncio.run_coroutine_threadsafe / the executor future's completion:
\* loop.call_soon_threadsafe appends to the loop's ready queue
\* a scheduler that runs the newest callback first
CallSoonFirst(q, cb) == <<cb>> \o q

CallSoon(q, cb) == Append(q, cb)

\* len(crew.tasks), the tasks whose callback is sync_callback_wrapper
TasksOfCrew == IF Req \subseteq clients THEN TwoClientTasks ELSE NumTasks

\* a task of the crew completes: task.callback = sync_callback_wrapper
WorkerTaskDone(r) ==
  /\ mode = "server"
  /\ worker[r] = "running"
  /\ tasks_done[r] < TasksOfCrew
  /\ tasks_done' = [tasks_done EXCEPT ![r] = @ + 1]
  /\ ready' = CallSoon(ready, <<"spawn", r>>)
  /\ UNCHANGED <<env, ovars, rpc, status_queue, worker, task_count, gpc, out,
                 beats, failed, published, pvars>>

\* crew.kickoff returns (all tasks done) or raises (at any point)
WorkerFinish(r) ==
  /\ mode = "server"
  /\ worker[r] = "running"
  /\ \E res \in {"ok", "err"} :
       /\ res = "ok" => tasks_done[r] = TasksOfCrew
       /\ ready' = CallSoon(ready, <<"set_" \o res, r>>)
       /\ worker' = [worker EXCEPT ![r] = res]
  /\ UNCHANGED <<env, ovars, rpc, status_queue, tasks_done, task_count, gpc,
                 out, beats, failed, published, pvars>>

\* ---- the event loop runs the head of its ready queue
\* callback() of run_coroutine_threadsafe: ensure_future(coro) creates the
\* task, whose first step is scheduled with call_soon
LoopSpawn(r) ==
  /\ mode = "server"
  /\ ~LoopBlocked
  /\ ready # <<>> /\ Head(ready) = <<"spawn", r>>
  /\ ready' = CallSoon(Tail(ready), <<"callback", r>>)
  /\ UNCHANGED <<env, ovars, rpc, status_queue, worker, tasks_done, task_count,
                 gpc, out, beats, failed, published, pvars>>

\* a callback that publishes the count it read before its own increment
TaskProgressCallbackStale(r) ==
  /\ mode = "server"
  /\ ~LoopBlocked
  /\ ready # <<>> /\ Head(ready) = <<"callback", r>>
  /\ ready' = Tail(ready)
  /\ task_count' = [task_count EXCEPT ![r] = @ + 1]
  /\ Put(<<Event("task_completed", r, task_count[r] + 1),
           Event("progress", r, task_count[r])>>)
  /\ UNCHANGED <<env, ovars, rpc, worker, tasks_done, gpc, out, beats, failed,
                 pvars>>

\* task_progress_callback: no await in it suspends (the queue is unbounded)
TaskProgressCallback(r) ==
  /\ mode = "server"
  /\ ~LoopBlocked
  /\ ready # <<>> /\ Head(ready) = <<"callback", r>>
  /\ ready' = Tail(ready)
  /\ task_count' = [task_count EXCEPT ![r] = @ + 1]
  /\ Put(<<Event("task_completed", r, task_count[r] + 1),
           Event("progress", r, task_count[r] + 1)>>)
  /\ UNCHANGED <<env, ovars, rpc, worker, tasks_done, gpc, out, beats, failed,
                 pvars>>

\* _set_state copies the executor future's state: the awaiting task's
\* wakeup is scheduled with call_soon
LoopSetState(r) ==
  /\ mode = "server"
  /\ ~LoopBlocked
  /\ ready # <<>>
  /\ \E res \in {"ok", "err"} :
       /\ Head(ready) = <<"set_" \o res, r>>
       /\ ready' = CallSoon(Tail(ready), <<"resume_" \o res, r>>)
  /\ UNCHANGED <<env, ovars, rpc, status_queue, worker, tasks_done, task_count,
                 gpc, out, beats, failed, published, pvars>>

\* run_crew_with_status resumes after `await loop.run_in_executor(...)`
RunResume(r) ==
  /\ mode = "server"
  /\ ~LoopBlocked
  /\ ready # <<>>
  /\ \E res \in {"ok", "err"} :
       /\ Head(ready) = <<"resume_" \o res, r>>
       /\ Put(IF res = "ok" THEN SuccessEvents(r) ELSE FailureEvents(r))
  /\ ready' = Tail(ready)
  /\ rpc' = [rpc EXCEPT ![r] = "finished"]
  /\ UNCHANGED <<env, ovars, worker, tasks_done, task_count, gpc, out, beats,
                 failed, pvars>>

NextStream ==
  \E r \in Req :
    \/ StreamResearch(r)
    \/ RunStart(r)
    \/ RunLoadAgents(r)
    \/ RunKickoff(r)
    \/ WorkerTaskDone(r)
    \/ WorkerFinish(r)
    \/ LoopSpawn(r)
    \/ TaskProgressCallback(r)
    \/ LoopSetState(r)
    \/ RunResume(r)
    \/ GenNext(r)
    \/ GenTimeout(r)
    \/ GenException(r)
    \/ GenClose(r)

InitStream ==
  /\ rpc = [r \in Req |-> "idle"]
  /\ status_queue = <<>>
  /\ ready = <<>>
  /\ worker = [r \in Req |-> "none"]
  /\ tasks_done = [r \in Req |-> 0]
  /\ task_count = [r \in Req |-> 0]
  /\ gpc = [r \in Req |-> "idle"]
  /\ out = [r \in Req |-> <<>>]
  /\ beats = [r \in Req |-> 0]
  /\ failed = [r \in Req |-> FALSE]
  /\ published = <<>>

\* ------------------------------------------------------ main.py run()
\* what an executor result carries in .pydantic: a report with a score, or
\* nothing (None)
NoReport == [has |-> FALSE, score |-> 0]
Report(x) == [has |-> TRUE, score |-> x]

\* QualityReport.overall_quality_score is validated to lie in [0, 1]
ResearchResults == {NoReport} \cup {Report(x) : x \in {0, 5, 7, 10}}
\* RefinementReport.updated_quality_score is any float
RefineResults == {NoReport} \cup {Report(x) : x \in {-1, 5, 6, 7, 11}}
Thresholds == {0, 5, 7, 10}

\* a run() that does not read the score of the research result
QualityScoreOfNone(report) == 0

\* quality_report.overall_quality_score if quality_report else 0.0
QualityScoreOf(report) == IF report.has THEN report.score ELSE 0

\* a gate that does not look at the enable flag
RefineGateScoreOnly(enable, score, threshold) == score < threshold

\* if inputs['enable_iterative_refinement'] and quality_score < threshold
RefineGate(enable, score, threshold) == enable /\ score < threshold

\* a loop without the iteration budget
LoopCondNoBudget(iteration, maxit, score, threshold) == score < threshold

\* a loop whose budget is off by one
LoopCondOffByOne(iteration, maxit, score, threshold) ==
  iteration <= maxit /\ score < threshold

\* while current_iteration < max_iterations and quality_score < threshold
LoopCond(iteration, maxit, score, threshold) ==
  iteration < maxit /\ score < threshold

\* a loop that never records the refined score
UpdatedScoreStale(score, report) == score

\* a loop that takes a refinement result without a report as a score of 0
UpdatedScoreReset(score, report) == IF report.has THEN report.score ELSE 0

\* if refinement_report: quality_score = ....updated_quality_score
UpdatedScore(score, report) == IF report.has THEN report.score ELSE score

\* a run() that swallows the exception and goes on to the report
OnRaiseContinue == "report"

\* a run() that starts over when a statement of its try block raises
OnRaiseRetry == "start"

\* where run() goes when a statement of its try block raises
OnRaise == "raised"

\* an entry of a dict: missing, or present with a value
Absent == [present |-> FALSE, value |-> [empty |-> TRUE, score |-> 0]]
Present(v) == [present |-> TRUE, value |-> v]

\* {} and quality_report.model_dump(), a dict with the report's score
EmptyDict == [empty |-> TRUE, score |-> 0]
ModelDump(report) == [empty |-> FALSE, score |-> report.score]

\* the inputs dict of run(), q its 'quality_report' entry; its other entries
\* are literals
Inputs(q) ==
  [enable_iterative_refinement |-> enable_iterative_refinement,
   max_iterations |-> max_iterations,
   quality_threshold |-> quality_threshold,
   quality_report |-> q]

\* refinement_inputs = inputs.copy(); refinement_inputs['quality_report'] =
\* quality_report.model_dump() if quality_report else {}
RefinementInputs(q, report) ==
  Inputs(Present(IF report.has THEN ModelDump(report) ELSE EmptyDict))

\* LatestAiDevelopment(), research_crew(), research_crew.kickoff(inputs)
ResearchKickoff ==
  /\ mode = "cli"
  /\ ppc = "start"
  /\ \E raises \in BOOLEAN :
       IF raises
       THEN ppc' = OnRaise /\ UNCHANGED <<calls, passed>>
       ELSE /\ ppc' = "research"
            /\ calls' = Append(calls, "research")
            /\ passed' = Append(passed, Inputs(inputs_report))
  /\ UNCHANGED <<env, ovars, svars, inputs_report,
                 enable_iterative_refinement, max_iterations,
                 quality_threshold, quality_report, quality_score,
                 current_iteration, returned, raised_at>>

ResearchReturn ==
  /\ mode = "cli"
  /\ ppc = "research"
  /\ \E res \in ResearchResults :
       /\ quality_report' = res
       /\ quality_score' = QualityScoreOf(res)
  /\ ppc' = "gate"
  /\ UNCHANGED <<env, ovars, svars, inputs_report, passed,
                 enable_iterative_refinement, max_iterations,
                 quality_threshold, current_iteration, calls, returned,
                 raised_at>>

ResearchRaise ==
  /\ mode = "cli"
  /\ ppc = "research"
  /\ ppc' = OnRaise
  /\ raised_at' = Len(calls)
  /\ UNCHANGED <<env, ovars, svars, inputs_report, passed,
                 enable_iterative_refinement, max_iterations,
                 quality_threshold, quality_report, quality_score,
                 current_iteration, calls, returned>>

\* the `if` of the refinement phase
Gate ==
  /\ mode = "cli"
  /\ ppc = "gate"
  /\ IF RefineGate(enable_iterative_refinement, quality_score,
                   quality_threshold)
     THEN ppc' = "loop" /\ current_iteration' = 0
     ELSE ppc' = "report" /\ UNCHANGED current_iteration
  /\ UNCHANGED <<env, ovars, svars, inputs_report, passed,
                 enable_iterative_refinement, max_iterations,
                 quality_threshold, quality_report, quality_score, calls,
                 returned, raised_at>>

\* a loop that writes the report into the inputs dict itself, not a copy
LoopTestNoCopy ==
  /\ mode = "cli"
  /\ ppc = "loop"
  /\ IF LoopCond(current_iteration, max_iterations, quality_score,
                 quality_threshold)
     THEN /\ current_iteration' = current_iteration + 1
          /\ calls' = Append(calls, "refine")
          /\ inputs_report' =
               RefinementInputs(inputs_report, quality_report).quality_report
          /\ passed' = Append(passed, Inputs(inputs_report'))
          /\ ppc' = "refine"
     ELSE /\ ppc' = "report"
          /\ UNCHANGED <<current_iteration, calls, passed, inputs_report>>
  /\ UNCHANGED <<env, ovars, svars,
                 enable_iterative_refinement, max_iterations,
                 quality_threshold, quality_report, quality_score, returned,
                 raised_at>>

\* the `while` test and, when it holds, the body up to
\* refinement_crew.kickoff(inputs=refinement_inputs)
LoopTest ==
  /\ mode = "cli"
  /\ ppc = "loop"
  /\ IF LoopCond(current_iteration, max_iterations, quality_score,
                 quality_threshold)
     THEN /\ current_iteration' = current_iteration + 1
          /\ calls' = Append(calls, "refine")
          /\ passed' = Append(passed, RefinementInputs(inputs_report,
                                                         quality_report))
          /\ ppc' = "refine"
     ELSE /\ ppc' = "report"
          /\ UNCHANGED <<current_iteration, calls, passed>>
  /\ UNCHANGED <<env, ovars, svars, inputs_report,
                 enable_iterative_refinement, max_iterations,
                 quality_threshold, quality_report, quality_score, returned,
                 raised_at>>

RefineReturn ==
  /\ mode = "cli"
  /\ ppc = "refine"
  /\ \E res \in RefineResults :
       /\ quality_score' = UpdatedScore(quality_score, res)
       /\ returned' = Append(returned, res)
  /\ ppc' = "loop"
  /\ UNCHANGED <<env, ovars, svars, inputs_report, passed,
                 enable_iterative_refinement, max_iterations,
                 quality_threshold, quality_report, current_iteration, calls,
                 raised_at>>

RefineRaise ==
  /\ mode = "cli"
  /\ ppc = "refine"
  /\ ppc' = OnRaise
  /\ raised_at' = Len(calls)
  /\ UNCHANGED <<env, ovars, svars, inputs_report, passed,
                 enable_iterative_refinement, max_iterations,
                 quality_threshold, quality_report, quality_score,
                 current_iteration, calls, returned>>

\* report_crew(), report_crew.kickoff(inputs=inputs)
ReportKickoff ==
  /\ mode = "cli"
  /\ ppc = "report"
  /\ calls' = Append(calls, "report")
  /\ passed' = Append(passed, Inputs(inputs_report))
  /\ ppc' = "reporting"
  /\ UNCHANGED <<env, ovars, svars, inputs_report,
                 enable_iterative_refinement, max_iterations,
                 quality_threshold, quality_report, quality_score,
                 current_iteration, returned, raised_at>>

\* a run() that reports again while the score is below the threshold
ReportReturnIfPassed ==
  /\ mode = "cli"
  /\ ppc = "reporting"
  /\ ppc' = IF quality_score >= quality_threshold THEN "done" ELSE "report"
  /\ UNCHANGED <<env, ovars, svars, inputs_report, passed,
                 enable_iterative_refinement, max_iterations,
                 quality_threshold, quality_report, quality_score,
                 current_iteration, calls, returned, raised_at>>

\* return final_result
ReportReturn ==
  /\ mode = "cli"
  /\ ppc = "reporting"
  /\ ppc' = "done"
  /\ UNCHANGED <<env, ovars, svars, inputs_report, passed,
                 enable_iterative_refinement, max_iterations,
                 quality_threshold, quality_report, quality_score,
                 current_iteration, calls, returned, raised_at>>

ReportRaise ==
  /\ mode = "cli"
  /\ ppc = "reporting"
  /\ ppc' = OnRaise
  /\ raised_at' = Len(calls)
  /\ UNCHANGED <<env, ovars, svars, inputs_report, passed,
                 enable_iterative_refinement, max_iterations,
                 quality_threshold, quality_report, quality_score,
                 current_iteration, calls, returned>>

NextPhase ==
  \/ ResearchKickoff
  \/ ResearchReturn
  \/ ResearchRaise
  \/ Gate
  \/ LoopTest
  \/ RefineReturn
  \/ RefineRaise
  \/ ReportKickoff
  \/ ReportReturn
  \/ ReportRaise

\* the inputs dict of run(); the server never calls run()
InitPhase ==
  /\ ppc = "start"
  /\ IF mode = "cli"
     THEN /\ enable_iterative_refinement \in BOOLEAN
          /\ max_iterations \in 0..MaxIter
          /\ quality_threshold \in Thresholds
     ELSE /\ enable_iterative_refinement = TRUE
          /\ max_iterations = 2
          /\ quality_threshold = 7
  /\ quality_report = NoReport
  /\ quality_score = 0
  /\ current_iteration = 0
  /\ calls = <<>>
  /\ returned = <<>>
  /\ raised_at = 0
  /\ inputs_report = Absent
  /\ passed = <<>>

\* ------------------------------------------------ api.py run_research
\* an exception object and its str()
Exc(msg) == [exc |-> "Exception", msg |-> msg]
Str(e) == e.msg
Exceptions == {Exc("boom"), Exc("")}
\* str(result) of the values crew.kickoff may return
ResultTexts == {"report", ""}

\* how the try block of run_research can end
Returned(t) == [kind |-> "return", text |-> t, e |-> Exc("")]
Raised(e) == [kind |-> "raise", text |-> "", e |-> e]
NoOutcome == [kind |-> "none", text |-> "", e |-> Exc("")]
KickoffOutcomes ==
  {Returned(t) : t \in ResultTexts} \cup {Raised(e) : e \in Exceptions}

\* ResearchResponse(status="success", result=str(result), ...)
ResearchResponse(t) ==
  [code |-> 200, status |-> "success", result |-> t, detail |-> ""]
\* raise HTTPException(status_code=500, detail=str(e))
HTTPException(code, detail) ==
  [code |-> code, status |-> "none", result |-> "", detail |-> detail]
NoResponse == [code |-> 0, status |-> "none", result |-> "", detail |-> ""]

\* an except branch that answers with a success response
OnExceptSuccess(e) == ResearchResponse(Str(e))

\* the `except Exception as e` branch of run_research
OnExcept(e) == HTTPException(500, Str(e))

\* the handler up to crew.kickoff: LatestAiDevelopment().crew() may raise
RunResearch ==
  /\ mode = "server"
  /\ "post" \in clients
  /\ ~LoopBlocked
  /\ npc = "idle"
  /\ \E raises \in BOOLEAN :
       IF raises
       THEN \E e \in Exceptions :
              /\ outcome' = Raised(e)
              /\ response' = OnExcept(e)
              /\ npc' = "responded"
       ELSE /\ npc' = "kickoff"
            /\ UNCHANGED <<outcome, response>>
  /\ UNCHANGED <<env, tvars, hvars, svars, pvars>>

\* crew.kickoff returns or raises, and the handler answers
RunResearchReturn ==
  /\ mode = "server"
  /\ npc = "kickoff"
  /\ \E res \in KickoffOutcomes :
       /\ outcome' = res
       /\ response' = IF res.kind = "return"
                      THEN ResearchResponse(res.text)
                      ELSE OnExcept(res.e)
  /\ npc' = "responded"
  /\ UNCHANGED <<env, tvars, hvars, svars, pvars>>

NextPost == RunResearch \/ RunResearchReturn

InitPost ==
  /\ npc = "idle"
  /\ outcome = NoOutcome
  /\ response = NoResponse

\* ------------------------------------- tools/base.py BaseResearchTool
None == "None"
\* the dicts self.execute may return
ToolData == {"{}", "{'status': 'success'}", "{'status': 'error'}"}
ExecuteOutcomes ==
  {Returned(d) : d \in ToolData} \cup {Raised(e) : e \in Exceptions}

\* ResearchToolOutput(success, message, data=None, error=None); the tool's
\* name is left out of the message.  `raised` is FALSE in every value _run
\* returns: it tells them from an exception leaving _run.
ResearchToolOutput(success, message, data, error) ==
  [raised |-> FALSE, success |-> success, message |-> message,
   data |-> data, error |-> error]
NoOutput ==
  [raised |-> FALSE, success |-> FALSE, message |-> "", data |-> None,
   error |-> None]

\* a _run without its try block: the exception leaves _run
OnExecuteRaisePropagate(e) ==
  [raised |-> TRUE, success |-> FALSE, message |-> Str(e), data |-> None,
   error |-> None]

\* the `except Exception as e` branch of _run
OnExecuteRaise(e) == ResearchToolOutput(FALSE, "failed", None, Str(e))

\* _run(**kwargs) given what self.execute(**kwargs) does
BaseResearchTool_run(res) ==
  IF res.kind = "return"
  THEN ResearchToolOutput(TRUE, "completed successfully", res.text, None)
  ELSE OnExecuteRaise(res.e)

\* one invocation of a tool built on the base class
ToolRun ==
  /\ mode = "tool"
  /\ tool = "base"
  /\ tpc = "idle"
  /\ \E res \in ExecuteOutcomes :
       /\ executed' = res
       /\ tool_output' = BaseResearchTool_run(res)
  /\ tpc' = "returned"
  /\ UNCHANGED <<env, nvars, svars, pvars, hvars, tool, fvars, cvars, kvars>>

InitBase ==
  /\ tpc = "idle"
  /\ executed = NoOutcome
  /\ tool_output = NoOutput

\* ---------------- tools/ingestion/firecrawl_scraper.py EnhancedFirecrawlTool
\* the dict execute returns, with the keys the callers read
Scraped(status, scraper_used) ==
  [raised |-> FALSE, status |-> status, scraper_used |-> scraper_used]
NoScraped == Scraped("none", "none")

\* the scraper the try block of execute calls
FirstScraper == IF use_firecrawl THEN "firecrawl" ELSE "fallback"

\* execute up to the call of the first scraper
FirecrawlExecute ==
  /\ mode = "tool"
  /\ tool = "firecrawl"
  /\ fpc = "idle"
  /\ scrapes' = Append(scrapes, FirstScraper)
  /\ fpc' = "first"
  /\ UNCHANGED <<env, nvars, svars, pvars, hvars, tool, uvars, cvars, kvars,
                 use_firecrawl, fallback_tool, scrape_results, scraped>>

\* the first scraper returns
FirstScrapeReturn ==
  /\ mode = "tool"
  /\ fpc = "first"
  /\ scrape_results' = Append(scrape_results, "ok")
  /\ scraped' = Scraped("success", FirstScraper)
  /\ fpc' = "returned"
  /\ UNCHANGED <<env, nvars, svars, pvars, hvars, tool, uvars, cvars, kvars,
                 use_firecrawl, fallback_tool, scrapes>>

\* the except branch of execute: "fallback" when it calls the fallback
\* scraper, "error" when it returns the error dict at once
ExceptBranch(use, fallback) ==
  IF (use /\ ~fallback) \/ fallback THEN "fallback" ELSE "error"

\* the first scraper raises
FirstScrapeRaise ==
  /\ mode = "tool"
  /\ fpc = "first"
  /\ scrape_results' = Append(scrape_results, "raised")
  /\ fallback_tool' = (fallback_tool \/ use_firecrawl)
  /\ IF ExceptBranch(use_firecrawl, fallback_tool) = "fallback"
     THEN /\ scrapes' = Append(scrapes, "fallback")
          /\ fpc' = "second"
          /\ UNCHANGED scraped
     ELSE /\ scraped' = Scraped("error", "none")
          /\ fpc' = "returned"
          /\ UNCHANGED scrapes
  /\ UNCHANGED <<env, nvars, svars, pvars, hvars, tool, uvars, cvars, kvars,
                 use_firecrawl>>

\* the fallback scraper called in the except branch returns
SecondScrapeReturn ==
  /\ mode = "tool"
  /\ fpc = "second"
  /\ scrape_results' = Append(scrape_results, "ok")
  /\ scraped' = Scraped("success", "fallback_after_error")
  /\ fpc' = "returned"
  /\ UNCHANGED <<env, nvars, svars, pvars, hvars, tool, uvars, cvars, kvars,
                 use_firecrawl, fallback_tool, scrapes>>

\* the fallback scraper called in the except branch raises
SecondScrapeRaise ==
  /\ mode = "tool"
  /\ fpc = "second"
  /\ scrape_results' = Append(scrape_results, "raised")
  /\ scraped' = Scraped("error", "none")
  /\ fpc' = "returned"
  /\ UNCHANGED <<env, nvars, svars, pvars, hvars, tool, uvars, cvars, kvars,
                 use_firecrawl, fallback_tool, scrapes>>

NextFirecrawl ==
  \/ FirecrawlExecute
  \/ FirstScrapeReturn
  \/ FirstScrapeRaise
  \/ SecondScrapeReturn
  \/ SecondScrapeRaise

\* __init__: the fallback tool is built when Firecrawl is not in use
InitFirecrawl ==
  /\ fpc = "idle"
  /\ IF tool = "firecrawl"
     THEN use_firecrawl \in BOOLEAN
     ELSE use_firecrawl = FALSE
  /\ fallback_tool = ~use_firecrawl
  /\ scrapes = <<>>
  /\ scrape_results = <<>>
  /\ scraped = NoScraped

\* ------------------ tools/analysis/claim_extractor.py ClaimExtractorTool
\* the sequences over S of length at most n
SeqsUpTo(S, n) == UNION {[1..k -> S] : k \in 0..n}

\* a piece of the text between two sentence ends: whether it is longer than
\* 20 characters, and whether one of the claim patterns matches it
Pieces == [long : BOOLEAN, claim : BOOLEAN]

\* _split_into_sentences: the pieces longer than 20 characters
SplitIntoSentences(t) == SelectSeq(t, LAMBDA s : s.long)

\* _identify_claim_type: a ClaimType or None
IdentifyClaimType(sentence) == IF sentence.claim THEN "claim" ELSE None

\* the `for i, sentence in enumerate(sentences)` loop of execute from
\* sentence i on (i counts from 1 here): a claim is appended first and the
\* length of the list is compared with max_claims after that
RECURSIVE ExtractLoop(_, _, _, _)
ExtractLoop(sentences, i, claims, maxc) ==
  IF i > Len(sentences) THEN claims
  ELSE IF IdentifyClaimType(sentences[i]) # None
       THEN LET c == Append(claims, [claim_id |-> Len(claims) + 1,
                                     line |-> i - 1])
            IN IF Len(c) >= maxc THEN c
               ELSE ExtractLoop(sentences, i + 1, c, maxc)
       ELSE ExtractLoop(sentences, i + 1, claims, maxc)

NoExtracted == [claims |-> <<>>, num_claims |-> 0, num_sentences_analyzed |-> 0]

\* ClaimExtractorTool.execute
ClaimExtractorExecute ==
  /\ mode = "tool"
  /\ tool = "claims"
  /\ cpc = "idle"
  /\ LET sentences == SplitIntoSentences(text)
         claims == ExtractLoop(sentences, 1, <<>>, max_claims)
     IN extracted' = [claims |-> claims, num_claims |-> Len(claims),
                      num_sentences_analyzed |-> Len(sentences)]
  /\ cpc' = "returned"
  /\ UNCHANGED <<env, nvars, svars, pvars, hvars, tool, uvars, fvars, kvars,
                 text, max_claims>>

InitClaims ==
  /\ cpc = "idle"
  /\ IF tool = "claims"
     THEN /\ text \in SeqsUpTo(Pieces, MaxSentences)
          /\ max_claims \in 0..MaxClaims
     ELSE /\ text = <<>>
          /\ max_claims = 0
  /\ extracted = NoExtracted

\* ------------------------ tools/analysis/fact_checker.py FactCheckerTool
\* Evidence(relevance_score, supports_claim), the score in tenths
Evidence(relevance_score, supports_claim) ==
  [relevance_score |-> relevance_score, supports_claim |-> supports_claim]
EvidenceKinds == {Evidence(r, b) : r \in {5, 7}, b \in BOOLEAN}

\* how the request of _search_semantic_scholar can end: it raises, it
\* answers with a status other than 200, or it answers with papers of which
\* `abstracts` have an abstract
SearchOutcomes ==
  {[kind |-> "raise", abstracts |-> 0], [kind |-> "status", abstracts |-> 0]}
    \cup {[kind |-> "papers", abstracts |-> k] : k \in 0..MaxSources}
NoSearch == [kind |-> "none", abstracts |-> 0]

\* _search_semantic_scholar: one Evidence(0.7, True) per paper that has an
\* abstract; nothing when the request raises or is refused
SearchSemanticScholar(res) ==
  IF res.kind = "papers"
  THEN [i \in 1..res.abstracts |-> Evidence(7, TRUE)]
  ELSE <<>>

RECURSIVE SumRelevance(_)
SumRelevance(ev) ==
  IF ev = <<>> THEN 0 ELSE Head(ev).relevance_score + SumRelevance(Tail(ev))

\* a _determine_confidence whose second test does not look at the
\* contradicting evidence
DetermineConfidenceLax(ev) ==
  LET supporting == Len(SelectSeq(ev, LAMBDA e : e.supports_claim))
      contradicting == Len(ev) - supporting
  IN IF ev = <<>> THEN "unknown"
     ELSE IF supporting >= 3 /\ SumRelevance(ev) >= 6 * Len(ev)
     THEN "verified"
     ELSE IF supporting >= 2 THEN "partially_verified"
     ELSE IF contradicting > supporting THEN "contradicted"
     ELSE "unknown"

\* _determine_confidence; avg_relevance >= 0.6 is the sum of the scores
\* being at least 0.6 times their number
DetermineConfidence(ev) ==
  LET supporting == Len(SelectSeq(ev, LAMBDA e : e.supports_claim))
      contradicting == Len(ev) - supporting
  IN IF ev = <<>> THEN "unknown"
     ELSE IF supporting >= 3 /\ SumRelevance(ev) >= 6 * Len(ev)
     THEN "verified"
     ELSE IF supporting >= 2 /\ contradicting = 0 THEN "partially_verified"
     ELSE IF contradicting > supporting THEN "contradicted"
     ELSE "unknown"

\* the dict execute returns, with the keys the callers read
Checked(how, ev) ==
  [how |-> how, raised |-> FALSE, confidence |-> DetermineConfidence(ev),
   num_sources_checked |-> Len(ev)]
NoChecked ==
  [how |-> "none", raised |-> FALSE, confidence |-> "none",
   num_sources_checked |-> 0]

\* FactCheckerTool.execute: both try blocks swallow what the request raises
FactCheckerExecute ==
  /\ mode = "tool"
  /\ tool = "facts"
  /\ kpc = "idle"
  /\ \E res \in SearchOutcomes :
       /\ searched' = res
       /\ evidence_list' = SearchSemanticScholar(res)
       /\ checked' = Checked("execute", SearchSemanticScholar(res))
  /\ kpc' = "returned"
  /\ UNCHANGED <<env, nvars, svars, pvars, hvars, tool, uvars, fvars, cvars>>

\* _determine_confidence on an evidence list of any content
DetermineConfidenceCall ==
  /\ mode = "tool"
  /\ tool = "facts"
  /\ kpc = "idle"
  /\ checked' = Checked("direct", evidence_list)
  /\ kpc' = "returned"
  /\ UNCHANGED <<env, nvars, svars, pvars, hvars, tool, uvars, fvars, cvars,
                 evidence_list, searched>>

NextFacts == FactCheckerExecute \/ DetermineConfidenceCall

InitFacts ==
  /\ kpc = "idle"
  /\ IF tool = "facts"
     THEN evidence_list \in SeqsUpTo(EvidenceKinds, MaxEvidence)
     ELSE evidence_list = <<>>
  /\ searched = NoSearch
  /\ checked = NoChecked

NextTool ==
  ToolRun \/ NextFirecrawl \/ ClaimExtractorExecute \/ NextFacts

Tools == {"base", "firecrawl", "claims", "facts"}

InitTool ==
  /\ IF mode = "tool" THEN tool \in Tools ELSE tool = "none"
  /\ InitBase
  /\ InitFirecrawl
  /\ InitClaims
  /\ InitFacts

\* ------------------------- api.py task_progress_callback, whole crew
\* int((task_count / total_tasks) * 100)
ProgressPercent(count) == (count * 100) \div total_tasks

\* the callback of one more task of the crew
CrewTaskCallback ==
  /\ mode = "crew"
  /\ crew_count < CrewTasks
  /\ crew_count' = crew_count + 1
  /\ progress' = ProgressPercent(crew_count + 1)
  /\ UNCHANGED <<env, nvars, tvars, svars, pvars>>

InitCrew ==
  /\ crew_count = 0
  /\ progress = 0

\* a process started by `run` or by `run_server`, the server with one
\* streaming client and one client of the non-streaming endpoint; or one
\* tool invocation; or the task counter over one kickoff of the whole crew
Init ==
  /\ mode \in {"cli", "server", "tool", "crew"}
  /\ clients = {"r1", "post"}
  /\ InitStream
  /\ InitPhase
  /\ InitPost
  /\ InitTool
  /\ InitCrew

\* a server with two streaming clients
InitTwo ==
  /\ mode \in {"cli", "server"}
  /\ clients = Req
  /\ InitStream
  /\ InitPhase
  /\ InitPost
  /\ InitTool
  /\ InitCrew

Next == NextStream \/ NextPhase \/ NextPost \/ NextTool \/ CrewTaskCallback

NextTwo == NextStream \/ NextPhase

Spec == Init /\ [][Next]_vars

SpecTwo == InitTwo /\ [][NextTwo]_vars

\* every enabled step of run() is eventually taken: each executor call
\* returns or raises
FairSpec == Spec /\ WF_vars(NextPhase)

\* the steps of the server that need no outside event: the event loop runs
\* its ready callbacks and the generators whose queue has an event, worker
\* threads run, and crew.kickoff returns or raises
StreamProgress ==
  \E r \in Req :
    \/ RunStart(r)
    \/ RunLoadAgents(r)
    \/ RunKickoff(r)
    \/ WorkerTaskDone(r)
    \/ WorkerFinish(r)
    \/ LoopSpawn(r)
    \/ TaskProgressCallback(r)
    \/ LoopSetState(r)
    \/ RunResume(r)
    \/ GenNext(r)

\* the server under fair scheduling
FairStream ==
  Spec /\ WF_vars(StreamProgress) /\ WF_vars(RunResearchReturn)

\* ---------------------------------------------------------------- claims
IsPrefix(a, b) == Len(a) <= Len(b) /\ SubSeq(b, 1, Len(a)) = a

IsData(item) == item.kind = "data"

\* the events of the data items of a stream, in order
DataEvents(items) ==
  LET d == SelectSeq(items, IsData) IN [i \in 1..Len(d) |-> d[i].ev]

\* the events a generator relayed from the queue: its data events without
\* the error event its own `except` branch made up
Relayed(g) ==
  LET d == DataEvents(out[g]) IN
    IF failed[g] THEN SubSeq(d, 1, Len(d) - 1) ELSE d

\* a sequence up to and including its first "done"
RECURSIVE UpToDone(_)
UpToDone(evs) ==
  IF evs = <<>> THEN <<>>
  ELSE IF IsDone(Head(evs)) THEN <<Head(evs)>>
  ELSE <<Head(evs)>> \o UpToDone(Tail(evs))

HasType(evs, t) == \E i \in 1..Len(evs) : evs[i].type = t

CountType(evs, t) == Cardinality({i \in 1..Len(evs) : evs[i].type = t})

\* the events one request's run has published, in order
PublishedBy(r) == SelectSeq(published, LAMBDA e : e.run = r)

\* the stream of g is the only one that has taken anything from the queue
OnlyConsumer(g) == \A h \in Req \ {g} : out[h] = <<>>

\* C1: the data events a stream yields, it being the relay's only consumer,
\* are the published events, in publication order, none dropped, up to and
\* including the first "done"; the generator stops right after yielding
\* that "done" and nothing follows it in the stream; heartbeats in between
\* change none of this.
C1_FifoUntilDone ==
  \A g \in Req :
    OnlyConsumer(g) =>
      /\ IsPrefix(Relayed(g), UpToDone(published))
      /\ (gpc[g] # "idle" /\ ~failed[g])
           => Relayed(g) \o status_queue = published
      /\ HasType(Relayed(g), "done") <=> (gpc[g] = "stopped" /\ ~failed[g])
      /\ \A i \in 1..Len(out[g]) :
           (IsData(out[g][i]) /\ IsDone(out[g][i].ev)) => i = Len(out[g])

C1_Witness ==
  /\ gpc["r1"] = "stopped"
  /\ ~failed["r1"]
  /\ Len(out["r1"]) >= 6
  /\ \E i \in 2..(Len(out["r1"]) - 1) : ~IsData(out["r1"][i])
  /\ DataEvents(out["r1"]) = published

\* C2: a stream only yields events published by its own request's run, and
\* so never stops on another run's "done".
C2_OwnEventsOnly ==
  \A g \in Req :
    \A i \in 1..Len(out[g]) :
      (IsData(out[g][i]) /\ out[g][i].ev.run # "none")
        => out[g][i].ev.run = g

\* C3: a run publishes "done" at most once, exactly once when it has
\* finished, and "done" is the last event it publishes: no callback of the
\* run is pending or still to be scheduled once "done" is out.
C3_DoneLastAndUnique ==
  \A r \in Req :
    LET p == PublishedBy(r) IN
      /\ CountType(p, "done") <= 1
      /\ rpc[r] = "finished" <=> CountType(p, "done") = 1
      /\ HasType(p, "done") =>
           /\ IsDone(p[Len(p)])
           /\ worker[r] # "running"
           /\ \A i \in 1..Len(ready) : ready[i][2] # r

C3_Witness ==
  LET p == PublishedBy("r1") IN
    /\ rpc["r1"] = "finished"
    /\ worker["r1"] = "ok"
    /\ HasType(p, "progress")
    /\ HasType(p, "completed")
    /\ IsDone(p[Len(p)])

CountCalls(c) == Cardinality({i \in 1..Len(calls) : calls[i] = c})

\* run() is past its refinement phase
PastRefinement == ppc \in {"report", "reporting", "done"}

\* C4: the number of refinement invocations never exceeds max_iterations,
\* however low the score stays.
C4_RefinementsWithinBudget == CountCalls("refine") <= max_iterations

C4_Witness ==
  /\ PastRefinement
  /\ max_iterations = MaxIter
  /\ CountCalls("refine") = max_iterations
  /\ quality_score < quality_threshold

\* C5: with refinement disabled the refinement executor is never invoked and
\* the loop is never entered, whatever the score; the step after Research
\* is Reporting.
C5_DisabledNeverRefines ==
  /\ [](~enable_iterative_refinement =>
          (CountCalls("refine") = 0 /\ ppc \notin {"loop", "refine"}))
  /\ [][(~enable_iterative_refinement /\ ppc = "gate") => ppc' = "report"]_vars

C5_Witness ==
  /\ ~enable_iterative_refinement
  /\ ppc = "done"
  /\ quality_score < quality_threshold
  /\ max_iterations > 0

\* the score of a result, where it carries one that reaches the threshold
Reaches(res) == res.has /\ res.score >= quality_threshold

\* the last score an executor returned: the research score, replaced by
\* each refinement result that carries one
RECURSIVE LastScore(_, _)
LastScore(s, results) ==
  IF results = <<>> THEN s
  ELSE LastScore(IF Head(results).has THEN Head(results).score ELSE s,
                 Tail(results))

\* C6: with refinement enabled, once run() is past the refinement phase:
\* no refinement was invoked if the research score reached the threshold;
\* otherwise the number of invocations is the least k whose result reached
\* the threshold, or max_iterations if there is none within the budget; and
\* the final score is the last score returned.
C6_RefinementCount ==
  (enable_iterative_refinement /\ PastRefinement) =>
    LET s0 == QualityScoreOf(quality_report)
        n == CountCalls("refine")
    IN /\ n = Len(returned)
       /\ IF s0 >= quality_threshold
          THEN n = 0
          ELSE /\ \A k \in 1..(n - 1) : ~Reaches(returned[k])
               /\ \/ n >= 1 /\ n <= max_iterations /\ Reaches(returned[n])
                  \/ n = max_iterations
       /\ quality_score = LastScore(s0, returned)

\* threshold 0.7, research score 0.5, two iterations adding 0.1 each
C6_Witness ==
  /\ ppc = "done"
  /\ enable_iterative_refinement
  /\ quality_threshold = 7
  /\ max_iterations = 2
  /\ quality_report = Report(5)
  /\ returned = <<Report(6), Report(7)>>
  /\ CountCalls("refine") = 2
  /\ quality_score = 7

Terminated == ppc \in {"done", "raised"}

\* C7: when every executor call returns or raises, run() terminates, and it
\* never makes more than max_iterations + 2 executor invocations.
C7_TerminatesWithinBudget ==
  /\ (mode = "cli") ~> Terminated
  /\ [](Len(calls) <= max_iterations + 2)

C7_Witness ==
  /\ ppc = "done"
  /\ max_iterations = MaxIter
  /\ Len(calls) = max_iterations + 2

\* C8: when the executor raises in the research phase, run() invokes no
\* other executor; when the executor of a streaming run raises, the run
\* publishes exactly one "error", then "done", and no "completed".
C8_ResearchFailure ==
  /\ raised_at = 1 => (ppc = "raised" /\ calls = <<"research">>)
  /\ \A r \in Req :
       worker[r] = "err" =>
         LET p == PublishedBy(r) IN
           /\ ~HasType(p, "completed")
           /\ CountType(p, "error") <= 1
           /\ rpc[r] = "finished" =>
                /\ CountType(p, "error") = 1
                /\ Len(p) >= 2
                /\ p[Len(p) - 1].type = "error"
                /\ IsDone(p[Len(p)])

C8_Witness ==
  /\ worker["r1"] = "err"
  /\ rpc["r1"] = "finished"
  /\ tasks_done["r1"] = 0
  /\ CountType(PublishedBy("r1"), "error") = 1

CountKeepalive(items) ==
  Cardinality({i \in 1..Len(items) : ~IsData(items[i])})

\* C9: each timeout yields exactly one keepalive and nothing else, takes
\* nothing from the queue and leaves the generator waiting on it.
C9_HeartbeatRestartsWait ==
  /\ [](\A g \in Req : CountKeepalive(out[g]) = beats[g])
  /\ [][\A g \in Req :
          beats'[g] # beats[g] =>
            /\ beats'[g] = beats[g] + 1
            /\ out'[g] = Append(out[g], SSEKeepalive)
            /\ gpc'[g] = "waiting"
            /\ status_queue' = status_queue]_vars

\* an event published after a heartbeat is delivered
C9_Witness ==
  \E i \in 1..Len(out["r1"]) :
    /\ ~IsData(out["r1"][i])
    /\ i < Len(out["r1"])
    /\ IsData(out["r1"][i + 1])
    /\ out["r1"][i + 1].ev.type = "started"

\* C10: an exception in the generator's try block, other than the timeout,
\* is turned into one "error" data event, which is the last thing the
\* stream yields: the generator then ends normally.
C10_ExceptionBecomesFinalError ==
  /\ [](\A g \in Req :
          failed[g] =>
            /\ gpc[g] = "stopped"
            /\ out[g] # <<>>
            /\ out[g][Len(out[g])] = SSEData(GenErrorEvent)
            /\ CountType(DataEvents(out[g]), "error")
                 = CountType(Relayed(g), "error") + 1)
  /\ [][\A g \in Req : failed[g] => out'[g] = out[g]]_vars

C10_Witness ==
  /\ failed["r1"]
  /\ Len(out["r1"]) >= 3
  /\ status_queue # <<>>

\* the types of the last two data events a stream has yielded
LastTwo(g) ==
  LET d == DataEvents(out[g]) IN
    IF Len(d) < 2 THEN <<>> ELSE <<d[Len(d) - 1].type, d[Len(d)].type>>

\* the run of a request went through its except branch
RunFailed(r) == HasType(PublishedBy(r), "error")

\* C11, as stated: whenever a streaming request fails, by its run or by an
\* exception in the consumer, the last two data events its client receives
\* are "error" then "done".
C11_FailureEndsWithErrorDone ==
  \A g \in Req :
    (gpc[g] = "stopped" /\ (RunFailed(g) \/ failed[g]))
      => LastTwo(g) = <<"error", "done">>

\* C11, amended: when the run of a request fails, the last two data events
\* its stream yields, it being the relay's only consumer and not failing
\* itself, are "error" then "done"; when the consumer fails, its stream ends
\* with the "error" event of the generator and yields no "done".
C11_RunFailureEndsWithErrorDone ==
  \A g \in Req :
    (OnlyConsumer(g) /\ gpc[g] = "stopped") =>
      /\ (RunFailed(g) /\ ~failed[g]) => LastTwo(g) = <<"error", "done">>
      /\ failed[g] =>
           /\ DataEvents(out[g])[Len(DataEvents(out[g]))] = GenErrorEvent
           /\ ~HasType(DataEvents(out[g]), "done")

C11_Witness ==
  /\ gpc["r1"] = "stopped"
  /\ ~failed["r1"]
  /\ worker["r1"] = "err"
  /\ LastTwo("r1") = <<"error", "done">>

\* C12: once the non-streaming handler has answered, the answer is the
\* success response carrying the executor's result when the try block
\* returned, and an HTTP 500 whose detail is the exception's text when
\* anything in it raised, never a success; and the handler answers whenever
\* the executor returns or raises.
C12_FailureIsHttp500 ==
  /\ [](npc = "responded" =>
          IF outcome.kind = "return"
          THEN /\ response.code = 200
               /\ response.status = "success"
               /\ response.result = outcome.text
          ELSE /\ outcome.kind = "raise"
               /\ response.code = 500
               /\ response.status # "success"
               /\ response.detail = outcome.e.msg)
  /\ (npc = "kickoff") ~> (npc = "responded")

C12_Witness ==
  /\ npc = "responded"
  /\ outcome = Raised(Exc("boom"))
  /\ response.code = 500
  /\ response.detail = "boom"

\* C13: once an executor invocation of run() has raised, run() is over with
\* the exception raised to its caller: the invocation that raised is the
\* last one, none is retried and no later phase is entered.
C13_NoRetryAfterRaise ==
  /\ [](raised_at > 0 => (ppc = "raised" /\ Len(calls) = raised_at))
  /\ [][ppc = "raised" => (ppc' = "raised" /\ calls' = calls)]_vars

\* the second refinement raises
C13_Witness ==
  /\ ppc = "raised"
  /\ raised_at = 3
  /\ calls = <<"research", "refine", "refine">>

\* C14: the report executor is invoked at most once, after the research
\* invocation and every refinement invocation; a run() in which nothing has
\* raised invokes it, whatever the score, and is done when it returns.
C14_ReportOnceThenDone ==
  /\ [](\A i \in 1..Len(calls) :
          calls[i] = "report" =>
            (i = Len(calls) /\ i >= 2 /\ calls[1] = "research"))
  /\ [](ppc = "done" => (CountCalls("report") = 1 /\ raised_at = 0))
  /\ [][(ppc \in {"gate", "loop"} /\ ppc' \notin {"gate", "loop", "refine"})
          => ppc' = "report"]_vars
  /\ (ppc = "report") ~> (ppc = "done" \/ raised_at = Len(calls))

\* the budget is used up and the score is still below the threshold
C14_Witness ==
  /\ ppc = "done"
  /\ calls = <<"research", "refine", "refine", "report">>
  /\ quality_score < quality_threshold

\* C15: every step of run() invokes at most one executor, one exactly when
\* it enters a phase; when a research or refinement invocation returns a
\* result that carries a score, quality_score is that score right after, and
\* it is still that score when the gate or the loop test reads it.
C15_ScoreIsLastResult ==
  /\ [][/\ Len(calls') <= Len(calls) + 1
        /\ Len(calls') = Len(calls) + 1
             <=> (ppc' # ppc /\ ppc' \in {"research", "refine", "reporting"})
       ]_vars
  /\ [][(ppc = "research" /\ ppc' = "gate" /\ quality_report'.has)
          => quality_score' = quality_report'.score]_vars
  /\ [][(ppc = "refine" /\ ppc' = "loop")
          => /\ Len(returned') = Len(returned) + 1
             /\ returned'[Len(returned')].has
                  => quality_score' = returned'[Len(returned')].score]_vars
  /\ [](ppc \in {"gate", "loop"}
          => quality_score
               = LastScore(QualityScoreOf(quality_report), returned))

\* the loop test reads the score of the first refinement result
C15_Witness ==
  /\ ppc = "loop"
  /\ quality_report = Report(5)
  /\ returned = <<Report(6)>>
  /\ quality_score = 6

\* C16: the quality score run() holds, the one its gate and loop test
\* compare with the threshold, is within [0, 1] in every reachable state.
C16_ScoreInUnitInterval == quality_score >= 0 /\ quality_score <= 10

\* C17, as stated: every event put on the status queue has a type of the
\* StatusEvent enum.
C17_TypesInEnum ==
  \A i \in 1..Len(published) : published[i].type \in StatusEventTypes

\* the enum with the two types the code adds to it
ExtendedEventTypes ==
  StatusEventTypes \cup {"execution_started", "step_complete"}

\* C17, amended: every event put on the status queue by a run or by a
\* method of StreamingCallbackHandler has a type of the StatusEvent enum
\* extended by "execution_started" and "step_complete".
C17_TypesInExtendedEnum ==
  /\ \A i \in 1..Len(published) : published[i].type \in ExtendedEventTypes
  /\ HandlerEventTypes \subseteq ExtendedEventTypes

C17_Witness ==
  /\ rpc["r1"] = "finished"
  /\ worker["r1"] = "ok"
  /\ HasType(published, "execution_started")
  /\ HasType(published, "task_completed")

\* a crew.kickoff call is in progress, of a streaming run or of the
\* non-streaming handler
KickoffInProgress == npc = "kickoff" \/ \E r \in Req : worker[r] = "running"

\* C18: while a crew.kickoff call is in progress the event loop is free: a
\* generator that waits on the queue can yield the event at its head, and
\* can yield a heartbeat when the queue is empty.
C18_KickoffLeavesLoopFree ==
  \A g \in Req :
    (KickoffInProgress /\ gpc[g] = "waiting") =>
      /\ status_queue # <<>> => ENABLED GenNext(g)
      /\ (status_queue = <<>> /\ beats[g] < MaxBeats) => ENABLED GenTimeout(g)

\* the last thing a stream has yielded is a "done" data event
EndsWithDone(g) ==
  /\ out[g] # <<>>
  /\ IsData(out[g][Len(out[g])])
  /\ IsDone(out[g][Len(out[g])].ev)

\* C19, as stated: under fair scheduling and with every kickoff returning
\* or raising, the stream of a client that stays connected eventually
\* yields "done" and ends.
C19_EveryStreamGetsDone ==
  \A g \in Req :
    (gpc[g] = "waiting")
      ~> (gpc[g] = "closed" \/ (gpc[g] = "stopped" /\ EndsWithDone(g)))

\* C19, amended: under the same assumptions, the stream of a client that
\* stays connected eventually ends: with "done" as the last event it
\* yields, or, when the generator itself raised, with the generator's
\* "error" event and no "done".
C19_StreamGetsDoneUnlessItFails ==
  /\ \A g \in Req :
       (gpc[g] = "waiting")
         ~> (gpc[g] = "closed" \/ failed[g]
               \/ (gpc[g] = "stopped" /\ EndsWithDone(g)))
  /\ [](\A g \in Req :
          gpc[g] = "stopped" =>
            IF failed[g] THEN ~HasType(DataEvents(out[g]), "done")
            ELSE EndsWithDone(g))

\* a stream that went through a heartbeat and a whole run
C19_Witness ==
  /\ gpc["r1"] = "stopped"
  /\ EndsWithDone("r1")
  /\ beats["r1"] >= 1
  /\ worker["r1"] = "ok"
  /\ npc = "responded"

\* C20: _run never raises; when execute returns a value, the output has
\* success = True and that value as its data; when execute raises, the
\* output has success = False, the exception's text as its error and no
\* data.
C20_RunNeverRaises ==
  tpc = "returned" =>
    /\ ~tool_output.raised
    /\ IF executed.kind = "return"
       THEN /\ tool_output.success
            /\ tool_output.data = executed.text
            /\ tool_output.error = "None"
       ELSE /\ executed.kind = "raise"
            /\ ~tool_output.success
            /\ tool_output.error = executed.e.msg
            /\ tool_output.data = "None"

C20_Witness ==
  /\ tpc = "returned"
  /\ executed = Raised(Exc("boom"))
  /\ ~tool_output.success
  /\ tool_output.error = "boom"

\* C21: execute of the Firecrawl tool never raises and returns status
\* "success" or "error"; without Firecrawl a success carries scraper_used
\* "fallback"; when Firecrawl raises and the fallback scraper then succeeds,
\* the result is a success with scraper_used "fallback_after_error"; status
\* "error" is returned only when every scraper that was called has failed.
C21_FirecrawlStatus ==
  fpc = "returned" =>
    /\ ~scraped.raised
    /\ scraped.status \in {"success", "error"}
    /\ (~use_firecrawl /\ scraped.status = "success")
         => scraped.scraper_used = "fallback"
    /\ (use_firecrawl /\ scrape_results = <<"raised", "ok">>)
         => (scraped.status = "success"
               /\ scraped.scraper_used = "fallback_after_error")
    /\ scraped.status = "error"
         => \A i \in 1..Len(scrape_results) : scrape_results[i] = "raised"

\* C29: one execute call of the Firecrawl tool calls each scraper at most
\* once: the fallback scraper is not called again after it has failed, and
\* scraper_used "fallback_after_error" is only reported when Firecrawl was
\* called and raised.
C29_EachScraperOnce ==
  /\ \A i, j \in 1..Len(scrapes) : i # j => scrapes[i] # scrapes[j]
  /\ scraped.scraper_used = "fallback_after_error"
       => (scrapes[1] = "firecrawl" /\ scrape_results[1] = "raised")

\* C22: execute of the claim extractor returns at most max_claims claims,
\* for every text and every max_claims from 0 up, and num_claims is the
\* length of the claims list it returns.
C22_AtMostMaxClaims ==
  cpc = "returned" =>
    /\ Len(extracted.claims) <= max_claims
    /\ extracted.num_claims = Len(extracted.claims)

C24_RunEventOrder ==
  \A r \in Req :
    LET p == PublishedBy(r) IN
      /\ p # <<>> => p[1].type = "started"
      /\ CountType(p, "completed") + CountType(p, "error") <= 1
      /\ rpc[r] = "finished" =>
           /\ CountType(p, "completed") + CountType(p, "error") = 1
           /\ Len(p) >= 3
           /\ p[Len(p) - 1].type \in {"completed", "error"}
           /\ IsDone(p[Len(p)])
      /\ HasType(p, "completed") => worker[r] = "ok"

C24_Witness ==
  LET p == PublishedBy("r1") IN
    /\ rpc["r1"] = "finished"
    /\ p[1].type = "started"
    /\ p[Len(p) - 1].type = "completed"
    /\ tasks_done["r1"] = NumTasks

\* the positions of the events of one type in a sequence
Positions(evs, t) == {i \in 1..Len(evs) : evs[i].type = t}

\* C25: no callback of a run is lost, whatever the order and the number of
\* callbacks the worker threads have scheduled: the n-th callback that runs
\* publishes "task_completed" and, right after it on the queue, the
\* "progress" event with count n; the counts of a run are 1, 2, 3, ... and
\* every callback has run by the time the run has finished.
C25_CallbacksCountInOrder ==
  /\ \A i \in 1..Len(published) :
       published[i].type = "task_completed" =>
         /\ i < Len(published)
         /\ published[i + 1].type = "progress"
         /\ published[i + 1].run = published[i].run
         /\ published[i + 1].n = published[i].n
  /\ \A r \in Req :
       LET p == PublishedBy(r)
           g == SelectSeq(p, LAMBDA e : e.type = "progress")
       IN /\ Len(g) = task_count[r]
          /\ \A k \in 1..Len(g) : g[k].n = k
          /\ CountType(p, "task_completed") = Len(g)
          /\ task_count[r] <= tasks_done[r]
          /\ rpc[r] = "finished" => task_count[r] = tasks_done[r]

\* two callbacks were scheduled before the loop ran the first of them
C25_Witness ==
  /\ tasks_done["r1"] = 2
  /\ task_count["r1"] = 1
  /\ CountType(PublishedBy("r1"), "progress") = 1
  /\ \E i \in 1..Len(ready) : ready[i] = <<"callback", "r1">>
  /\ worker["r1"] = "running"

\* C26: every percentage task_progress_callback publishes lies in 0..100
\* and its count of completed tasks never exceeds total_tasks, over the
\* callbacks of the crew that LatestAiDevelopment().crew() builds, one per
\* task.
C26_ProgressWithinBounds ==
  /\ progress \in 0..100
  /\ crew_count <= total_tasks

\* every result the refinement executor has returned carries no report
NoRefinementReport == \A i \in 1..Len(returned) : ~returned[i].has

\* C27: a research result without a structured report gives the quality
\* score 0; a refinement result without one leaves the score as it was; and
\* the loop decides on that value: with refinement enabled, after a last
\* refinement result without a report, or with a positive threshold and no
\* report from research nor from any refinement, the refinement executor
\* has been invoked max_iterations times once run() is past the phase.
C27_MissingReportScore ==
  /\ [][(ppc = "research" /\ ppc' = "gate" /\ ~quality_report'.has)
          => quality_score' = 0]_vars
  /\ [][(ppc = "refine" /\ ppc' = "loop"
           /\ ~returned'[Len(returned')].has)
          => quality_score' = quality_score]_vars
  /\ []((PastRefinement /\ enable_iterative_refinement) =>
          /\ (returned # <<>> /\ ~returned[Len(returned)].has)
               => CountCalls("refine") = max_iterations
          /\ (~quality_report.has /\ quality_threshold > 0
                /\ NoRefinementReport)
               => /\ quality_score = 0
                  /\ CountCalls("refine") = max_iterations)

C27_Witness ==
  /\ PastRefinement
  /\ enable_iterative_refinement
  /\ quality_threshold > 0
  /\ max_iterations = MaxIter
  /\ ~quality_report.has
  /\ NoRefinementReport
  /\ Len(returned) = MaxIter

\* C28: the inputs dict of run() is never modified; each invocation is
\* given inputs: the research executor the dict without a 'quality_report'
\* entry, every refinement the same entries plus the dump of the research
\* phase's quality report ({} when there is none), the same at every
\* iteration, and the report executor exactly what the research executor
\* was given.
C28_InputsNotModified ==
  /\ inputs_report = Absent
  /\ Len(passed) = Len(calls)
  /\ \A i \in 1..Len(passed) :
       /\ passed[i].enable_iterative_refinement =
            passed[1].enable_iterative_refinement
       /\ passed[i].max_iterations = passed[1].max_iterations
       /\ passed[i].quality_threshold = passed[1].quality_threshold
       /\ calls[i] \in {"research", "report"} => passed[i] = passed[1]
       /\ calls[i] = "refine" =>
            /\ passed[i].quality_report.present
            /\ passed[i].quality_report.value =
                 (IF quality_report.has
                  THEN [empty |-> FALSE, score |-> quality_report.score]
                  ELSE [empty |-> TRUE, score |-> 0])
  /\ passed # <<>> => ~passed[1].quality_report.present

C28_Witness ==
  /\ ppc = "done"
  /\ CountCalls("refine") = 2
  /\ quality_report.has
  /\ passed[2] = passed[3]
  /\ passed[Len(passed)] = passed[1]
  /\ passed[2] # passed[1]
====
